---- MODULE Spec2Model ----
(***************************************************************************)
(* Loopah: audio loop player.  Model of the playback engine                *)
(* (src/src/audio/playback.rs), the loop range value type and the load     *)
(* event handling of the application (src/src/app.rs) and the overlay of   *)
(* the waveform renderer (src/src/ui/waveform.rs).                         *)
(*                                                                         *)
(* Numbers.  The f64 quantities of the program are modelled as exact       *)
(* fixed-point rationals:                                                  *)
(*   - a frame position / phase / ratio x is the integer x * Res           *)
(*     ("frame steps", Res steps per frame);                               *)
(*   - a time of t seconds is the integer t * PreviewHz * Res ("ticks");   *)
(*   - a sample rate is PreviewHz * r Hz for a divisor r of Res, so that   *)
(*     seconds * sample_rate is a whole number of frame steps;             *)
(*   - position_seconds() = pos_frame / sample_rate is returned in steps   *)
(*     of 1 / (PreviewHz * Res * Res) second.                              *)
(* An output sample (s0 + (s1 - s0) * frac) * volume is held multiplied by *)
(* Res.  Sample k (0-based) of a decoded file has the value k + 1, so that *)
(* every interpolated sample is non-zero and names the frames it was made  *)
(* from.                                                                   *)
(***************************************************************************)
EXTENDS Integers, Sequences, FiniteSets, TLC

\* ---------------------------------------------------------------- bounds
Res == 2
MaxFrames == 3
MaxRatio == 5
MaxOutFrames == 2
MaxChannels == 2
MaxChunkFrames == 2
MaxStreamFrames == 3
MaxChunks == 2
MaxStreamRatio == 3
MaxStreamPos == 4
MaxLoads == 2

\* the preview has one value per 1/50 s: `sr / 50` frames, `1.0 / 50.0` s
PreviewHz == 50

\* the value an output buffer holds before the callback has written it
Uninit == 0 - 1

None == "None"

Min(a, b) == IF a <= b THEN a ELSE b
Max(a, b) == IF a >= b THEN a ELSE b
\* f64::clamp(lo, hi); the callers below establish lo <= hi
Clamp(x, lo, hi) == IF x < lo THEN lo ELSE IF x > hi THEN hi ELSE x
\* f64::floor and f64::ceil of a value in frame steps
Floor(x) == (x \div Res) * Res
Ceil(x) == ((x + Res - 1) \div Res) * Res

SampleRates == {PreviewHz * r : r \in {q \in 1..Res : Res % q = 0}}
\* `seconds * sr`: a time in ticks as a position in frame steps
ToFrames(seconds, sr) == (seconds * sr) \div PreviewHz
\* `frames / sr`: a whole number of frames as a time in ticks
ToSeconds(frames, sr) == (frames * Res * PreviewHz) \div sr
LoadIds == 1..MaxLoads

\* ------------------------------------------------------------- variables
VARIABLES
    player,     \* LoopahApp.player: the Player's State and lock (mode None: no Player)
    pcm,        \* the PCM chunk channels, one per load
    output,     \* the output buffer as the last render callback left it
    op,         \* the operation completed last, with what it returned
    hist,       \* frames pulled and not interpolated from, since the last stop
    app,        \* LoopahApp
    worker,     \* the decode workers, one per load
    events,     \* the LoadEvent channels, one per load
    lr,         \* arguments and result of a LoopRange operation
    dec,        \* one run of a decode function over a file's packets
    mtx         \* the Mutex around the Player's State: its holder and waiters

playerVars == <<player, pcm, output, op, hist>>
appVars == <<app, worker, events>>
vars == <<player, pcm, output, op, hist, app, worker, events, lr, dec, mtx>>

\* ------------------------------------------------------ MemoryAudio data
\* interleaved PCM of a file of `frames` frames: sample k has value k + 1
PcmData(frames, ch) == [k \in 1..(frames * ch) |-> k]

MemoryAudio(sr, ch, frames) ==
    [sample_rate |-> sr, channels |-> ch, frames |-> frames,
     data |-> PcmData(frames, ch)]

\* the times, in ticks, tried as arguments on a buffer: from before its
\* start to after its end
Seconds(src) == (0 - 1)..(ToSeconds(src.frames, src.sample_rate) + 1)

\* ------------------------------------------------------------ MemoryState
\* wrap that subtracts the span once (used as a variant of the code below)
enforce_loop_bounds_once(m) ==
    IF m.loop_range # None
    THEN LET start == m.loop_range[1]
             end == m.loop_range[2]
             span == Max(end - start, Res)
         IN IF m.pos_frame < start THEN [m EXCEPT !.pos_frame = start]
            ELSE IF m.pos_frame >= end
                 THEN [m EXCEPT !.pos_frame = m.pos_frame - span]
                 ELSE m
    ELSE [m EXCEPT !.pos_frame =
            Clamp(m.pos_frame, 0, Max(m.src.frames * Res - Res, 0))]

enforce_loop_bounds(m) ==
    IF m.loop_range # None
    THEN LET start == m.loop_range[1]
             end == m.loop_range[2]
             span == Max(end - start, Res)
         IN IF m.pos_frame < start THEN [m EXCEPT !.pos_frame = start]
            ELSE IF m.pos_frame >= end
                 THEN [m EXCEPT !.pos_frame = start + ((m.pos_frame - start) % span)]
                 ELSE m
    ELSE [m EXCEPT !.pos_frame =
            Clamp(m.pos_frame, 0, Max(m.src.frames * Res - Res, 0))]

\* a reset that forgets the loop (variant of the code below)
reset_to_zero(m) == [m EXCEPT !.pos_frame = 0]

reset_to_loop_start(m) ==
    IF m.loop_range # None
    THEN [m EXCEPT !.pos_frame = m.loop_range[1]]
    ELSE [m EXCEPT !.pos_frame = 0]

\* e.clamp(s + 1.0, frames) panics when s + 1.0 > frames
set_loop_panics(m, range_secs) ==
    /\ range_secs # None
    /\ LET sr == m.src.sample_rate
           s0 == Floor(ToFrames(range_secs[1], sr))
           e0 == Ceil(ToFrames(range_secs[2], sr))
           max_frame == Max(m.src.frames * Res - Res, 0)
           s == Clamp(s0, 0, max_frame)
       IN /\ e0 > s0
          /\ s + Res > m.src.frames * Res

set_loop(m, range_secs) ==
    IF range_secs # None
    THEN LET sr == m.src.sample_rate
             s0 == Floor(ToFrames(range_secs[1], sr))
             e0 == Ceil(ToFrames(range_secs[2], sr))
         IN IF e0 <= s0 THEN [m EXCEPT !.loop_range = None]
            ELSE LET max_frame == Max(m.src.frames * Res - Res, 0)
                     s == Clamp(s0, 0, max_frame)
                     e == Clamp(e0, s + Res, m.src.frames * Res)
                 IN IF e - s < Res THEN [m EXCEPT !.loop_range = None]
                    ELSE enforce_loop_bounds([m EXCEPT !.loop_range = <<s, e>>])
    ELSE [m EXCEPT !.loop_range = None]

\* a seek that does not wrap into the loop (variant of the code below)
set_position_seconds_unwrapped(m, seconds) ==
    LET sr == m.src.sample_rate
        frame == Clamp(ToFrames(seconds, sr), 0, Max(m.src.frames * Res - Res, 0))
    IN [m EXCEPT !.pos_frame = frame]

set_position_seconds(m, seconds) ==
    LET sr == m.src.sample_rate
        frame == Clamp(ToFrames(seconds, sr), 0, Max(m.src.frames * Res - Res, 0))
    IN enforce_loop_bounds([m EXCEPT !.pos_frame = frame])

\* -------------------------------------------------------- process_memory
\* a zero-fill that leaves the buffer as it is (variant of the code below)
ZeroFrom_nothing(buf, start) == buf

ZeroFrom(buf, start) ==
    [i \in 1..Len(buf) |-> IF i > start THEN 0 ELSE buf[i]]

Fill0(buf) == [i \in 1..Len(buf) |-> 0]

\* one output frame: every channel interpolated between frames i0 and i0+1
MemFrame(src, out, f, i0, frac, vol) ==
    LET ch == src.channels
    IN [i \in 1..Len(out) |->
          IF i > f * ch /\ i <= (f + 1) * ch
          THEN LET c == i - f * ch - 1
                   s0 == src.data[i0 * ch + c + 1]
                   s1 == src.data[(i0 + 1) * ch + c + 1]
               IN (s0 * Res + (s1 - s0) * frac) * vol
          ELSE out[i]]

\* the `for f in 0..out_frames` loop; r = [m, out, wrote, hi], hi the
\* largest frame index i1 read so far (0 when no frame was read)
RECURSIVE MemLoop(_, _, _, _)
MemLoop(r, f, out_frames, vol) ==
    IF f >= out_frames THEN r
    ELSE LET m1 == enforce_loop_bounds(r.m)
             p == m1.pos_frame
             i0 == p \div Res
             total_frames == m1.src.frames
         IN IF i0 >= Max(total_frames - 1, 0)
            THEN [r EXCEPT !.m = m1]
            ELSE LET frac == p - i0 * Res
                     out1 == MemFrame(m1.src, r.out, f, i0, frac, vol)
                     m2 == enforce_loop_bounds(
                               [m1 EXCEPT !.pos_frame = m1.pos_frame + m1.ratio])
                 IN MemLoop([m |-> m2, out |-> out1, wrote |-> r.wrote + 1,
                             hi |-> Max(r.hi, i0 + 1)],
                            f + 1, out_frames, vol)

\* a render callback that ignores the playing flag (variant of the code below)
process_memory_ignoring_pause(m, is_playing, vol, out) ==
    LET ch == m.src.channels
    IN IF ch = 0 THEN [m |-> m, out |-> Fill0(out), wrote |-> 0, hi |-> 0]
       ELSE LET total_frames == m.src.frames
                out_frames == Len(out) \div ch
                r == MemLoop([m |-> m, out |-> out, wrote |-> 0, hi |-> 0],
                             0, out_frames, vol)
                out2 == ZeroFrom(r.out, r.wrote * ch)
                m2 == IF r.m.pos_frame >= total_frames * Res
                      THEN [r.m EXCEPT !.pos_frame = total_frames * Res]
                      ELSE r.m
            IN [m |-> m2, out |-> out2, wrote |-> r.wrote, hi |-> r.hi]

process_memory(m, is_playing, vol, out) ==
    LET ch == m.src.channels
    IN IF ~is_playing \/ ch = 0
       THEN [m |-> m, out |-> Fill0(out), wrote |-> 0, hi |-> 0]
       ELSE LET total_frames == m.src.frames
                out_frames == Len(out) \div ch
                r == MemLoop([m |-> m, out |-> out, wrote |-> 0, hi |-> 0],
                             0, out_frames, vol)
                out2 == ZeroFrom(r.out, r.wrote * ch)
                m2 == IF r.m.pos_frame >= total_frames * Res
                      THEN [r.m EXCEPT !.pos_frame = total_frames * Res]
                      ELSE r.m
            IN [m |-> m2, out |-> out2, wrote |-> r.wrote, hi |-> r.hi]

\* ------------------------------------------------------------- StreamState
\* decoded frame number of an interleaved frame (sample k has value k + 1)
FrameId(fr, ch) == (fr[1] - 1) \div ch

\* a read that leaves a chunk queued after its last frame (variant of the
\* code below)
RECURSIVE read_frame_keeps_chunk(_, _, _)
read_frame_keeps_chunk(pending, chunk_offset, channels) ==
    IF pending = <<>>
    THEN [ok |-> FALSE, pending |-> pending, chunk_offset |-> chunk_offset,
          frame |-> <<>>]
    ELSE LET chunk == Head(pending)
         IN IF chunk_offset + channels > Len(chunk)
            THEN read_frame_keeps_chunk(Tail(pending), 0, channels)
            ELSE LET fr == SubSeq(chunk, chunk_offset + 1, chunk_offset + channels)
                     off == chunk_offset + channels
                 IN [ok |-> TRUE, pending |-> pending,
                     chunk_offset |-> IF off >= Len(chunk) THEN 0 ELSE off,
                     frame |-> fr]

\* read_frame: r = [ok, pending, chunk_offset, frame]; `frame` is the new
\* content of the target when ok, and the target is left alone otherwise
RECURSIVE read_frame(_, _, _)
read_frame(pending, chunk_offset, channels) ==
    IF pending = <<>>
    THEN [ok |-> FALSE, pending |-> pending, chunk_offset |-> chunk_offset,
          frame |-> <<>>]
    ELSE LET chunk == Head(pending)
         IN IF chunk_offset + channels > Len(chunk)
            THEN read_frame(Tail(pending), 0, channels)
            ELSE LET fr == SubSeq(chunk, chunk_offset + 1, chunk_offset + channels)
                     off == chunk_offset + channels
                 IN IF off >= Len(chunk)
                    THEN [ok |-> TRUE, pending |-> Tail(pending),
                          chunk_offset |-> 0, frame |-> fr]
                    ELSE [ok |-> TRUE, pending |-> pending,
                          chunk_offset |-> off, frame |-> fr]

\* the try_recv loop at the head of process_stream: every chunk in the
\* channel is queued, and Disconnected (an empty channel whose sender is
\* gone) sets finished
Drain(s, chan) ==
    [s EXCEPT !.pending = s.pending \o chan.buf,
              !.finished = s.finished \/ ~chan.connected]

\* a read_frame call on the stream's queue with the anchor `slot` as its
\* target; a = [s, ok, pulled]
ApplyRead(s, slot, rf) ==
    [s |-> [s EXCEPT !.pending = rf.pending,
                     !.chunk_offset = rf.chunk_offset,
                     !.prev_frame = IF rf.ok /\ slot = "prev" THEN rf.frame ELSE @,
                     !.next_frame = IF rf.ok /\ slot = "next" THEN rf.frame ELSE @],
     ok |-> rf.ok,
     pulled |-> IF rf.ok THEN {FrameId(rf.frame, s.channels)} ELSE {}]

ReadAnchor(s, slot) ==
    ApplyRead(s, slot, read_frame(s.pending, s.chunk_offset, s.channels))

\* the `if !stream.initialized` block: prev_frame, then next_frame
InitSecond(a, b) ==
    [s |-> [b.s EXCEPT !.initialized = b.ok], ok |-> b.ok,
     pulled |-> a.pulled \cup b.pulled]

InitFirst(a) == IF ~a.ok THEN a ELSE InitSecond(a, ReadAnchor(a.s, "next"))

InitAnchors(s) ==
    IF s.initialized THEN [s |-> s, ok |-> TRUE, pulled |-> {}]
    ELSE InitFirst(ReadAnchor(s, "prev"))

\* no reset at the end of the stream (variant of the code below)
EndOfStreamReset_none(s) == s

\* the `if stream.finished` branch taken when read_frame fails in the loop
EndOfStreamReset(s) ==
    IF s.finished THEN [s EXCEPT !.initialized = FALSE] ELSE s

\* the `while stream.phase >= 1.0` loop; r = [s, ok, pulled]
RECURSIVE PhaseLoop(_)
PhaseShift(s) ==
    ReadAnchor([s EXCEPT !.phase = s.phase - Res, !.prev_frame = s.next_frame],
               "next")

PhaseNext(r, a) ==
    IF ~a.ok
    THEN [s |-> EndOfStreamReset(a.s), ok |-> FALSE, pulled |-> r.pulled]
    ELSE PhaseLoop([s |-> a.s, ok |-> TRUE, pulled |-> r.pulled \cup a.pulled])

PhaseLoop(r) == IF r.s.phase < Res THEN r ELSE PhaseNext(r, PhaseShift(r.s))

\* one interpolated output frame
StreamFrame(s, out, frame_idx, vol) ==
    [i \in 1..Len(out) |->
        IF i > frame_idx * s.channels /\ i <= (frame_idx + 1) * s.channels
        THEN (s.prev_frame[i - frame_idx * s.channels] * Res
              + (s.next_frame[i - frame_idx * s.channels]
                 - s.prev_frame[i - frame_idx * s.channels]) * s.phase) * vol
        ELSE out[i]]

\* phase and pos_frame advance by the ratio
Advance(s) ==
    [s EXCEPT !.phase = s.phase + s.ratio, !.pos_frame = s.pos_frame + s.ratio]

\* the `while frame_idx < frames_out` loop.
\* r = [s, out, wrote, pulled, anchored, phases, ran_out]: wrote counts the
\* output frames interpolated, pulled the frames read_frame returned,
\* anchored the frames an output frame was interpolated from, phases the
\* values of `frac` used, and ran_out tells that a read_frame call failed
\* (the loop returned early).
RECURSIVE StreamLoop(_, _, _, _)
Emit(r, a, frame_idx, vol) ==
    [r EXCEPT !.s = a.s,
              !.out = StreamFrame(a.s, r.out, frame_idx, vol),
              !.wrote = r.wrote + 1,
              !.pulled = r.pulled \cup a.pulled,
              !.anchored = r.anchored \cup
                              {FrameId(a.s.prev_frame, a.s.channels),
                               FrameId(a.s.next_frame, a.s.channels)},
              !.phases = r.phases \cup {a.s.phase}]

AfterPhase(r, pl, frame_idx, frames_out, vol) ==
    IF ~pl.ok
    THEN [r EXCEPT !.s = pl.s,
                   !.pulled = r.pulled \cup pl.pulled,
                   !.out = ZeroFrom(r.out, (frame_idx + 1) * pl.s.channels),
                   !.ran_out = TRUE]
    ELSE StreamLoop([r EXCEPT !.s = pl.s, !.pulled = r.pulled \cup pl.pulled],
                    frame_idx + 1, frames_out, vol)

AfterInit(r, a, frame_idx, frames_out, vol) ==
    IF ~a.ok
    THEN [r EXCEPT !.s = a.s,
                   !.pulled = r.pulled \cup a.pulled,
                   !.out = ZeroFrom(r.out, frame_idx * a.s.channels),
                   !.ran_out = TRUE]
    ELSE AfterPhase(Emit(r, a, frame_idx, vol),
                    PhaseLoop([s |-> Advance(a.s), ok |-> TRUE, pulled |-> {}]),
                    frame_idx, frames_out, vol)

StreamLoop(r, frame_idx, frames_out, vol) ==
    IF frame_idx >= frames_out THEN r
    ELSE AfterInit(r, InitAnchors(r.s), frame_idx, frames_out, vol)

\* r = [s, out, wrote, pulled, anchored, phases, ran_out, drained]
process_stream(s, chan, is_playing, vol, out) ==
    IF ~is_playing
    THEN [s |-> s, out |-> Fill0(out), wrote |-> 0, pulled |-> {},
          anchored |-> {}, phases |-> {}, ran_out |-> FALSE, drained |-> FALSE]
    ELSE StreamLoop([s |-> Drain(s, chan), out |-> out, wrote |-> 0,
                     pulled |-> {}, anchored |-> {}, phases |-> {},
                     ran_out |-> FALSE, drained |-> TRUE],
                    0, Len(out) \div s.channels, vol)

\* ------------------------------------------------------------------ Player
DefaultVolume == 1

NoMemory == [src |-> MemoryAudio(PreviewHz, 1, 0), pos_frame |-> 0,
             ratio |-> Res, loop_range |-> None]

NoStream == [receiver |-> 1, pending |-> <<>>, chunk_offset |-> 0,
             prev_frame |-> <<>>, next_frame |-> <<>>, initialized |-> FALSE,
             phase |-> 0, ratio |-> Res, pos_frame |-> 0,
             sample_rate |-> PreviewHz, channels |-> 1, finished |-> FALSE]

\* a channel: the messages in flight, whether the Sender is alive, whether
\* the Receiver is alive, and (for the PCM channel) what was sent so far
NoChannel == [buf |-> <<>>, connected |-> FALSE, receiver |-> FALSE,
              sent |-> 0, chunks |-> 0, channels |-> 1]

NewChannel(ch) == [buf |-> <<>>, connected |-> TRUE, receiver |-> TRUE,
                   sent |-> 0, chunks |-> 0, channels |-> ch]

NoHist == [unused |-> {}, lost |-> {}]

\* Player::from_memory: the state the callback starts from
from_memory(src, ratio) ==
    [mode |-> "Memory", playing |-> TRUE, volume |-> DefaultVolume,
     poisoned |-> FALSE,
     mem |-> [src |-> src, pos_frame |-> 0, ratio |-> ratio, loop_range |-> None],
     stream |-> NoStream]

\* Player::from_stream
from_stream(sample_rate, channels, receiver, ratio) ==
    [mode |-> "Stream", playing |-> TRUE, volume |-> DefaultVolume,
     poisoned |-> FALSE,
     mem |-> NoMemory,
     stream |-> [receiver |-> receiver, pending |-> <<>>, chunk_offset |-> 0,
                 prev_frame |-> [c \in 1..channels |-> 0],
                 next_frame |-> [c \in 1..channels |-> 0],
                 initialized |-> FALSE, phase |-> 0, ratio |-> ratio,
                 pos_frame |-> 0, sample_rate |-> sample_rate,
                 channels |-> channels, finished |-> FALSE]]

\* Player::position_seconds, in steps of 1 / (PreviewHz * Res * Res) second
position_seconds(p) ==
    IF p.poisoned THEN 0
    ELSE IF p.mode = "Memory"
         THEN p.mem.pos_frame * ((PreviewHz * Res) \div p.mem.src.sample_rate)
         ELSE p.stream.pos_frame * ((PreviewHz * Res) \div p.stream.sample_rate)

\* Player::is_playing
is_playing(p) == IF p.poisoned THEN FALSE ELSE p.playing

\* Player::play
play(p) == IF p.poisoned THEN p ELSE [p EXCEPT !.playing = TRUE]

\* Player::pause
pause(p) == IF p.poisoned THEN p ELSE [p EXCEPT !.playing = FALSE]

\* Player::stop
stop(p) ==
    IF p.poisoned THEN p
    ELSE IF p.mode = "Memory"
    THEN [p EXCEPT !.playing = FALSE, !.mem = reset_to_loop_start(p.mem)]
    ELSE [p EXCEPT !.playing = FALSE,
                   !.stream.pos_frame = 0,
                   !.stream.phase = 0,
                   !.stream.initialized = FALSE,
                   !.stream.pending = <<>>,
                   !.stream.chunk_offset = 0]

\* a set_loop that acts on the MemoryState in every mode (variant of the
\* code below)
player_set_loop_any_mode(p, range_secs) ==
    IF p.poisoned THEN p
    ELSE IF set_loop_panics(p.mem, range_secs) THEN [p EXCEPT !.poisoned = TRUE]
    ELSE [p EXCEPT !.mem = set_loop(p.mem, range_secs),
                   !.stream.pos_frame = 0, !.stream.phase = 0]

\* Player::set_loop; a panic while the lock is held poisons it
player_set_loop(p, range_secs) ==
    IF p.poisoned \/ p.mode # "Memory" THEN p
    ELSE IF set_loop_panics(p.mem, range_secs) THEN [p EXCEPT !.poisoned = TRUE]
    ELSE [p EXCEPT !.mem = set_loop(p.mem, range_secs)]

\* Player::set_position_seconds
player_set_position_seconds(p, seconds) ==
    IF p.poisoned \/ p.mode # "Memory" THEN p
    ELSE [p EXCEPT !.mem = set_position_seconds(p.mem, seconds)]

\* frames pulled from the queue that no output frame was interpolated from
Unused(pulled, anchored) == pulled \ anchored

\* the unused frames that are no longer held as an anchor either
LostFrames(s, unused) ==
    {k \in unused : /\ k # FrameId(s.prev_frame, s.channels)
                    /\ k # FrameId(s.next_frame, s.channels)}

HistAfter(s, unused) ==
    [unused |-> unused \ LostFrames(s, unused), lost |-> LostFrames(s, unused)]

\* an output buffer of n frames as the audio host hands it to the callback
OutputBuffer(p, n) ==
    [i \in 1..(n * (IF p.mode = "Memory" THEN p.mem.src.channels
                    ELSE p.stream.channels)) |-> Uninit]

\* the callback after a failed lock(): output.fill(0.0)
RenderPoisoned(buf) ==
    /\ output' = Fill0(buf)
    /\ op' = [name |-> "render", wrote |-> 0, ran_out |-> FALSE,
              after |-> op.name]
    /\ UNCHANGED <<player, pcm, hist>>

RenderMemory(r) ==
    /\ player' = [player EXCEPT !.mem = r.m]
    /\ output' = r.out
    /\ op' = [name |-> "render", wrote |-> r.wrote, ran_out |-> FALSE,
              after |-> op.name, hi |-> r.hi]
    /\ UNCHANGED <<pcm, hist>>

RenderStream(r) ==
    /\ player' = [player EXCEPT !.stream = r.s]
    /\ pcm' = IF r.drained THEN [pcm EXCEPT ![r.s.receiver].buf = <<>>] ELSE pcm
    /\ output' = r.out
    /\ op' = [name |-> "render", wrote |-> r.wrote, ran_out |-> r.ran_out,
              after |-> op.name]
    /\ hist' = HistAfter(r.s, Unused(hist.unused \cup r.pulled, r.anchored))

\* the output callback built in Player::build_stream, for a buffer of n frames
Render ==
    /\ player.mode # None
    /\ player.mode = "Stream" => player.stream.pos_frame <= MaxStreamPos * Res
    /\ \E n \in 0..MaxOutFrames :
          IF player.poisoned THEN RenderPoisoned(OutputBuffer(player, n))
          ELSE IF player.mode = "Memory"
          THEN RenderMemory(process_memory(player.mem, player.playing,
                                           player.volume, OutputBuffer(player, n)))
          ELSE RenderStream(process_stream(player.stream,
                                           pcm[player.stream.receiver],
                                           player.playing, player.volume,
                                           OutputBuffer(player, n)))
    /\ UNCHANGED <<appVars, lr, dec, mtx>>

\* ------------------------------------------- the Player driven on its own
\* Option<T>: None is the empty sequence and Some(x) the sequence of x
NoneOf == <<>>
Some(x) == <<x>>

NoPlayer == [mode |-> None, playing |-> FALSE, volume |-> DefaultVolume,
             poisoned |-> FALSE, mem |-> NoMemory, stream |-> NoStream]

\* LoopahApp::new; `load` numbers the loads started (receivers are named by
\* the load they belong to)
NoApp == [load |-> 0, info |-> NoneOf, mem_audio |-> NoneOf,
          load_events |-> NoneOf, stream_rx |-> NoneOf, meta |-> NoneOf,
          load_error |-> FALSE, loop_range |-> NoneOf,
          loop_drag_anchor |-> NoneOf]

NoWorker == [pc |-> "idle", sample_rate |-> PreviewHz, channels |-> 1,
             rms_len |-> 0, log |-> <<>>]

NoEvents == [buf |-> <<>>, connected |-> FALSE, receiver |-> FALSE]

NewEvents == [buf |-> <<>>, connected |-> TRUE, receiver |-> TRUE]

NoLr == [f |-> "none", a |-> 0, b |-> 0, d |-> 0]

\* no decode function is running
NoDec == [pc |-> "none"]

\* Mutex::new: unlocked, the UI thread and the audio callback outside it
NoMtx == [holder |-> "none", ui |-> "idle", cmd |-> <<"none">>,
          callback |-> "idle", n |-> 0]

InitIdle ==
    /\ app = NoApp
    /\ worker = [i \in LoadIds |-> NoWorker]
    /\ events = [i \in LoadIds |-> NoEvents]
    /\ lr = NoLr
    /\ dec = NoDec
    /\ mtx = NoMtx

InitPlayerMemory ==
    /\ \E sr \in SampleRates, ch \in 1..MaxChannels, n \in 0..MaxFrames,
          ratio \in 1..MaxRatio :
          player = from_memory(MemoryAudio(sr, ch, n), ratio)
    /\ pcm = [i \in LoadIds |-> NoChannel]

InitPlayerStream ==
    \E ch \in 1..MaxChannels, ratio \in 1..MaxStreamRatio :
       /\ player = from_stream(PreviewHz * Res, ch, 1, ratio)
       /\ pcm = [i \in LoadIds |-> IF i = 1 THEN NewChannel(ch) ELSE NoChannel]

Init ==
    /\ InitPlayerMemory \/ InitPlayerStream
    /\ output = <<>>
    /\ op = [name |-> "new"]
    /\ hist = NoHist
    /\ InitIdle

Play ==
    /\ player' = play(player)
    /\ output' = <<>>
    /\ op' = [name |-> "other"]
    /\ UNCHANGED <<pcm, hist, appVars, lr, dec, mtx>>

Pause ==
    /\ player' = pause(player)
    /\ output' = <<>>
    /\ op' = [name |-> "pause"]
    /\ UNCHANGED <<pcm, hist, appVars, lr, dec, mtx>>

Stop ==
    /\ player' = stop(player)
    /\ hist' = IF player.poisoned \/ player.mode = "Memory" THEN hist ELSE NoHist
    /\ output' = <<>>
    /\ op' = [name |-> "stop"]
    /\ UNCHANGED <<pcm, appVars, lr, dec, mtx>>

\* what kind of argument a set_loop call was given: None, a range of zero
\* width, one shorter than a sample period, or a longer one
ArgKind(range_secs, sr) ==
    IF range_secs = None THEN "none"
    ELSE IF range_secs[2] = range_secs[1] THEN "zero"
    ELSE IF ToFrames(range_secs[2] - range_secs[1], sr) < Res THEN "degenerate"
    ELSE "range"

\* the arguments tried: every range for a Memory player; for a Stream
\* player, where the call does nothing, one of each kind
LoopArgs ==
    IF player.mode = "Memory"
    THEN {None} \cup (Seconds(player.mem.src) \X Seconds(player.mem.src))
    ELSE {None, <<0, 0>>, <<0, 1>>, <<0, 2 * Res>>}

SeekArgs == IF player.mode = "Memory" THEN Seconds(player.mem.src) ELSE {0, 1}

SetLoop ==
    /\ \E range_secs \in LoopArgs :
          /\ player' = player_set_loop(player, range_secs)
          /\ op' = [name |-> IF ~player.poisoned /\ player.mode = "Memory"
                                /\ set_loop_panics(player.mem, range_secs)
                             THEN "set_loop_panic" ELSE "set_loop",
                    arg |-> ArgKind(range_secs,
                                    IF player.mode = "Memory"
                                    THEN player.mem.src.sample_rate
                                    ELSE player.stream.sample_rate)]
    /\ output' = <<>>
    /\ UNCHANGED <<pcm, hist, appVars, lr, dec, mtx>>

SetPositionSeconds ==
    /\ \E seconds \in SeekArgs :
          /\ player' = player_set_position_seconds(player, seconds)
          /\ op' = [name |-> "seek", arg |-> seconds]
    /\ output' = <<>>
    /\ UNCHANGED <<pcm, hist, appVars, lr, dec, mtx>>

\* Sender::send of one chunk of n frames on a PCM channel
send_chunk(chan, n) ==
    [chan EXCEPT
       !.buf = IF chan.receiver
               THEN Append(@, [i \in 1..(n * chan.channels) |->
                                  chan.sent * chan.channels + i])
               ELSE @,
       !.sent = @ + n,
       !.chunks = @ + 1]

\* the decode worker's Sender<Arc<Vec<f32>>>: send one chunk of n frames
SenderSend ==
    /\ pcm[1].connected
    /\ pcm[1].chunks < MaxChunks
    /\ \E n \in 0..MaxChunkFrames :
          /\ pcm[1].sent + n <= MaxStreamFrames
          /\ pcm' = [pcm EXCEPT ![1] = send_chunk(pcm[1], n)]
    /\ output' = <<>>
    /\ op' = [name |-> "other"]
    /\ UNCHANGED <<player, hist, appVars, lr, dec, mtx>>

\* the Sender is dropped: the channel disconnects
SenderDrop ==
    /\ pcm[1].connected
    /\ pcm' = [pcm EXCEPT ![1].connected = FALSE]
    /\ output' = <<>>
    /\ op' = [name |-> "other"]
    /\ UNCHANGED <<player, hist, appVars, lr, dec, mtx>>

Next ==
    \/ Play
    \/ Pause
    \/ Stop
    \/ SetLoop
    \/ SetPositionSeconds
    \/ Render
    \/ SenderSend
    \/ SenderDrop

Spec == Init /\ [][Next]_vars

\* --------------------------------------------------------------- LoopRange
\* a constructor that keeps the argument order (variant of the code below)
ordered_unsorted(a, b) == [start |-> a, end |-> b]

\* LoopRange::ordered
ordered(a, b) ==
    IF a <= b THEN [start |-> a, end |-> b] ELSE [start |-> b, end |-> a]

\* the swap at the end of LoopRange::clamp
SwapIfReversed(start, end) ==
    IF end < start THEN [start |-> end, end |-> start]
    ELSE [start |-> start, end |-> end]

\* a clamp that leaves the upper end alone (variant of the code below)
clamp_lower_only(self, duration) ==
    SwapIfReversed(Max(self.start, 0), Max(self.end, 0))

\* LoopRange::clamp, for duration >= 0
clamp(self, duration) ==
    SwapIfReversed(Clamp(self.start, 0, duration), Clamp(self.end, 0, duration))

\* LoopRange::duration
duration(self) == Max(self.end - self.start, 0)

\* the endpoints and durations, in ticks, the operations are applied to
MaxSeconds == 4
LrValues == (0 - 2)..(MaxSeconds + 2)

InitLoopRange ==
    /\ player = NoPlayer
    /\ pcm = [i \in LoadIds |-> NoChannel]
    /\ output = <<>>
    /\ op = [name |-> "new"]
    /\ hist = NoHist
    /\ app = NoApp
    /\ worker = [i \in LoadIds |-> NoWorker]
    /\ events = [i \in LoadIds |-> NoEvents]
    /\ \E a \in LrValues, b \in LrValues, d \in 0..MaxSeconds :
          lr = [f |-> "args", a |-> a, b |-> b, d |-> d]
    /\ dec = NoDec
    /\ mtx = NoMtx

\* LoopRange::ordered(a, b)
LrOrdered ==
    /\ lr.f = "args"
    /\ lr' = [f |-> "ordered", a |-> lr.a, b |-> lr.b, d |-> lr.d,
              out |-> ordered(lr.a, lr.b)]
    /\ UNCHANGED <<playerVars, appVars, dec, mtx>>

\* LoopRange { start: a, end: b }.clamp(d)
LrClamp ==
    /\ lr.f = "args"
    /\ lr' = [f |-> "clamp", a |-> lr.a, b |-> lr.b, d |-> lr.d,
              out |-> clamp([start |-> lr.a, end |-> lr.b], lr.d)]
    /\ UNCHANGED <<playerVars, appVars, dec, mtx>>

\* LoopRange { start: a, end: b }.duration()
LrDuration ==
    /\ lr.f = "args"
    /\ lr' = [f |-> "duration", a |-> lr.a, b |-> lr.b, d |-> lr.d,
              out |-> duration([start |-> lr.a, end |-> lr.b])]
    /\ UNCHANGED <<playerVars, appVars, dec, mtx>>

NextLoopRange == LrOrdered \/ LrClamp \/ LrDuration

SpecLoopRange == InitLoopRange /\ [][NextLoopRange]_vars

\* ------------------------------------------------------------ decode worker
\* spawn_decode_job and LoadEvent, from the Streaming Loader contract of the
\* specification: at most one StreamReady as soon as the codec parameters
\* are known, then the PCM chunks, then one terminal event.

\* the channel counts of the files opened
FileChannels == {1}

\* window size of the RMS preview: `((sr / 50).max(1)) as usize`
\* a window rounded to the nearest frame (variant of the code below)
window_frames_rounded(sr) == Max((2 * sr + PreviewHz) \div (2 * PreviewHz), 1)

window_frames(sr) == Max(sr \div PreviewHz, 1)

DecodedInfo(sr, ch, total_frames, rms_len) ==
    [sample_rate |-> sr, channels |-> ch, total_frames |-> total_frames,
     rms_len |-> rms_len]

StreamReady(sr, ch) == [type |-> "StreamReady", sample_rate |-> sr, channels |-> ch]

PreviewReady(info, audio) == [type |-> "PreviewReady", info |-> info, audio |-> audio]

ErrorEvent == [type |-> "Error"]

IsTerminal(ev) == ev.type \in {"PreviewReady", "Error"}

\* Sender::send on the event channel; a send to a dropped Receiver fails
\* and the message is dropped
send_event(chan, ev) ==
    IF chan.receiver THEN [chan EXCEPT !.buf = Append(@, ev)] ELSE chan

\* the track's sample rate and channel count are known: StreamReady
WorkerOpen(id) ==
    /\ worker[id].pc = "open"
    /\ \E sr \in SampleRates, ch \in FileChannels :
          /\ worker' = [worker EXCEPT ![id].pc = "decode",
                                      ![id].sample_rate = sr,
                                      ![id].channels = ch,
                                      ![id].log = Append(@, "StreamReady")]
          /\ events' = [events EXCEPT ![id] = send_event(@, StreamReady(sr, ch))]
          /\ pcm' = [pcm EXCEPT ![id].channels = ch]
    /\ output' = <<>>
    /\ op' = [name |-> "worker"]
    /\ UNCHANGED <<player, hist, app, lr, dec, mtx>>

\* a step of the decoder fails before the first packet is decoded: Error
WorkerError(id) ==
    /\ \/ worker[id].pc = "open"
       \/ worker[id].pc = "decode" /\ pcm[id].chunks = 0
    /\ worker' = [worker EXCEPT ![id].pc = "done",
                                ![id].log = Append(@, "Error")]
    /\ events' = [events EXCEPT ![id] = [send_event(@, ErrorEvent)
                                            EXCEPT !.connected = FALSE]]
    /\ pcm' = [pcm EXCEPT ![id].connected = FALSE]
    /\ output' = <<>>
    /\ op' = [name |-> "worker"]
    /\ UNCHANGED <<player, hist, app, lr, dec, mtx>>

\* one packet of n frames is decoded: its chunk is sent and retained, and
\* its whole preview windows are added to the preview
WorkerChunk(id) ==
    /\ worker[id].pc = "decode"
    /\ pcm[id].chunks < MaxChunks
    /\ \E n \in 1..MaxChunkFrames :
          /\ pcm[id].sent + n <= MaxStreamFrames
          /\ pcm' = [pcm EXCEPT ![id] = send_chunk(@, n)]
          /\ worker' = [worker EXCEPT
                 ![id].rms_len = @ + (n \div window_frames(worker[id].sample_rate)),
                 ![id].log = Append(@, "chunk")]
    /\ output' = <<>>
    /\ op' = [name |-> "worker"]
    /\ UNCHANGED <<player, hist, app, events, lr, dec, mtx>>

\* a worker that goes on decoding after PreviewReady (variant of the step
\* below)
WorkerFinish_continues(id) ==
    /\ worker[id].pc = "decode"
    /\ worker' = [worker EXCEPT ![id].log = Append(@, "PreviewReady")]
    /\ events' = [events EXCEPT ![id] =
          send_event(@, PreviewReady(
               DecodedInfo(worker[id].sample_rate, worker[id].channels,
                           pcm[id].sent, worker[id].rms_len),
               MemoryAudio(worker[id].sample_rate, worker[id].channels,
                           pcm[id].sent)))]
    /\ output' = <<>>
    /\ op' = [name |-> "worker"]
    /\ UNCHANGED <<player, pcm, hist, app, lr, dec, mtx>>

\* the end of the stream: PreviewReady with the DecodedInfo and the buffer
WorkerFinish(id) ==
    /\ worker[id].pc = "decode"
    /\ worker' = [worker EXCEPT ![id].pc = "done",
                                ![id].log = Append(@, "PreviewReady")]
    /\ events' = [events EXCEPT ![id] =
          [send_event(@, PreviewReady(
               DecodedInfo(worker[id].sample_rate, worker[id].channels,
                           pcm[id].sent, worker[id].rms_len),
               MemoryAudio(worker[id].sample_rate, worker[id].channels,
                           pcm[id].sent)))
           EXCEPT !.connected = FALSE]]
    /\ pcm' = [pcm EXCEPT ![id].connected = FALSE]
    /\ output' = <<>>
    /\ op' = [name |-> "worker"]
    /\ UNCHANGED <<player, hist, app, lr, dec, mtx>>

\* --------------------------------------------------------------- LoopahApp
\* the state the update handler works on, and what poll_loader met on the
\* way: `built` tells how the last Player construction ended ("none" when
\* none was tried), `preview` what player PreviewReady found ("live": a
\* Stream player that is playing, "other": anything else, "none": no
\* PreviewReady was handled); both are kept for an update in which no click
\* on Open, Play / Pause or Stop changed the player afterwards
World == [app |-> app, player |-> player, pcm |-> pcm, events |-> events,
          hist |-> hist, built |-> "none", preview |-> "none"]

\* file_duration_seconds, in ticks
file_duration_seconds(info) == ToSeconds(info.total_frames, info.sample_rate)

\* Player::is_streaming, from the specification: the player was built from
\* the stream-ready metadata
is_streaming(p) == p.mode = "Stream"

\* a Receiver<Arc<Vec<f32>>> is dropped
drop_pcm_receiver(w, id) ==
    [w EXCEPT !.pcm[id].receiver = FALSE, !.pcm[id].buf = <<>>]

\* the Player is dropped, and with it the Receiver its StreamState holds
drop_player(w) ==
    IF w.player.mode = "Stream"
    THEN [drop_pcm_receiver(w, w.player.stream.receiver)
             EXCEPT !.player = NoPlayer, !.hist = NoHist]
    ELSE [w EXCEPT !.player = NoPlayer, !.hist = NoHist]

\* self.player = Some(p)
install_player(w, p) == [drop_player(w) EXCEPT !.player = p]

\* the audio output: whether from_stream / from_memory find a device, and the
\* ratio of the source rate to the device rate
DeviceRatios == {Res}
Devices == [stream_ok : BOOLEAN, memory_ok : BOOLEAN, ratio : DeviceRatios]

\* `if let Some(pcm_rx) = self.stream_rx.take()`
TakeStreamRx(w, ev, dev) ==
    IF w.app.stream_rx = NoneOf THEN w
    ELSE IF dev.stream_ok
    THEN install_player([w EXCEPT !.app.stream_rx = NoneOf, !.built = "ok"],
                        from_stream(ev.sample_rate, ev.channels,
                                    w.app.stream_rx[1], dev.ratio))
    ELSE drop_pcm_receiver([w EXCEPT !.app.stream_rx = NoneOf,
                                     !.built = "failed"],
                           w.app.stream_rx[1])

\* poll_loader, LoadEvent::StreamReady
on_stream_ready(w, ev, dev) ==
    TakeStreamRx([w EXCEPT !.app.meta = Some([sample_rate |-> ev.sample_rate,
                                              channels |-> ev.channels])],
                 ev, dev)

\* a decision that always replaces the player (variant of the code below)
should_replace_always(p) == TRUE

should_replace(p) == IF p.mode = None THEN TRUE
                     ELSE ~is_streaming(p) \/ ~is_playing(p)

ReplacePlayer(w, ev, dev) ==
    IF ~should_replace(w.player) THEN w
    ELSE IF dev.memory_ok
    THEN install_player([w EXCEPT !.built = "ok"],
                        from_memory(ev.audio, dev.ratio))
    ELSE [w EXCEPT !.built = "failed"]

\* poll_loader, LoadEvent::PreviewReady
on_preview_ready(w, ev, dev) ==
    ReplacePlayer(
        [w EXCEPT !.app.mem_audio = Some(ev.audio),
                  !.app.info = Some(ev.info),
                  !.app.loop_range =
                      Some(ordered(0, file_duration_seconds(ev.info))),
                  !.app.loop_drag_anchor = NoneOf,
                  !.preview = IF w.player.mode = "Stream" /\ w.player.playing
                                 /\ ~w.player.poisoned
                              THEN "live" ELSE "other"],
        ev, dev)

\* poll_loader, LoadEvent::Error
on_error(w) ==
    IF w.app.stream_rx = NoneOf
    THEN [w EXCEPT !.app.load_error = TRUE]
    ELSE [drop_pcm_receiver(w, w.app.stream_rx[1])
             EXCEPT !.app.load_error = TRUE, !.app.stream_rx = NoneOf]

handle_event(w, ev, dev) ==
    IF ev.type = "StreamReady" THEN on_stream_ready(w, ev, dev)
    ELSE IF ev.type = "PreviewReady" THEN on_preview_ready(w, ev, dev)
    ELSE on_error(w)

\* `while let Ok(event) = rx.try_recv()`
RECURSIVE poll_events(_, _, _)
poll_events(w, evs, dev) ==
    IF evs = <<>> THEN w
    ELSE poll_events(handle_event(w, Head(evs), dev), Tail(evs), dev)

\* `if drop_events { self.load_events = None; }`
AfterPoll(w, id, drop_events) ==
    IF drop_events
    THEN [w EXCEPT !.app.load_events = NoneOf,
                   !.events[id].receiver = FALSE,
                   !.events[id].buf = <<>>]
    ELSE w

PollChannel(w, id, dev) ==
    AfterPoll(poll_events([w EXCEPT !.events[id].buf = <<>>],
                          w.events[id].buf, dev),
              id,
              \E k \in 1..Len(w.events[id].buf) : IsTerminal(w.events[id].buf[k]))

\* LoopahApp::poll_loader
poll_loader(w, dev) ==
    IF w.app.load_events = NoneOf THEN w
    ELSE PollChannel(w, w.app.load_events[1], dev)

\* the receivers the app holds are dropped
DropLoadEvents(w) ==
    IF w.app.load_events = NoneOf THEN w
    ELSE [w EXCEPT !.events[w.app.load_events[1]].receiver = FALSE,
                   !.events[w.app.load_events[1]].buf = <<>>]

DropStreamRx(w) ==
    IF w.app.stream_rx = NoneOf THEN w
    ELSE drop_pcm_receiver(w, w.app.stream_rx[1])

\* a reset that leaves the player installed (variant of the code below)
reset_state_keeps_player(w) ==
    [DropStreamRx(DropLoadEvents(w))
        EXCEPT !.app = [NoApp EXCEPT !.load = w.app.load]]

\* LoopahApp::reset_state
reset_state(w) ==
    [drop_player(DropStreamRx(DropLoadEvents(w)))
        EXCEPT !.app = [NoApp EXCEPT !.load = w.app.load]]

\* "Open audio..." with a file picked: reset_state, then spawn_decode_job
open_file(w) ==
    [reset_state(w) EXCEPT !.app.load = w.app.load + 1,
                           !.app.load_events = Some(w.app.load + 1),
                           !.app.stream_rx = Some(w.app.load + 1),
                           !.events[w.app.load + 1] = NewEvents,
                           !.pcm[w.app.load + 1] = NewChannel(1)]

\* the Play / Pause button
toggle_play(w) ==
    IF w.player.mode = None THEN w
    ELSE IF is_playing(w.player) THEN [w EXCEPT !.player = pause(w.player)]
    ELSE [w EXCEPT !.player = play(w.player)]

\* the Stop button
stop_clicked(w) ==
    IF w.player.mode = None THEN w
    ELSE [w EXCEPT !.player = stop(w.player),
                   !.hist = IF w.player.poisoned \/ w.player.mode = "Memory"
                            THEN w.hist ELSE NoHist]

\* the A / B controls: a drag value, or one of the four buttons
NoEdit == [target |-> "A", kind |-> "none", v |-> 0]

\* the times, in ticks, the pointer and the drag values are tried at: before
\* the start, inside the first frame, inside the second, the end of the
\* longest file and after it
PointerTimes == {0 - 1, 1, Res + 1, MaxStreamFrames * Res + 1}
DragTimes == {0, 1, Res + 1, MaxStreamFrames * Res}

Edits ==
    [target : {"A", "B"}, kind : {"drag"}, v : DragTimes]
    \cup [target : {"A", "B"}, kind : {"-1f", "+1f", "-10f", "+10f"}, v : {0}]

Edited(value, e, frame, dur) ==
    IF e.kind = "drag" THEN Clamp(e.v, 0, dur)
    ELSE IF e.kind = "-1f" THEN value - frame
    ELSE IF e.kind = "+1f" THEN value + frame
    ELSE IF e.kind = "-10f" THEN value - 10 * frame
    ELSE value + 10 * frame

EditRange(r, e, frame, dur) ==
    IF e.target = "A"
    THEN clamp(ordered(Edited(r.start, e, frame, dur), r.end), dur)
    ELSE clamp(ordered(r.start, Edited(r.end, e, frame, dur)), dur)

\* the "loop-controls" panel of update, with one control changed
loop_controls(w, e) ==
    IF w.app.info = NoneOf \/ w.app.loop_range = NoneOf THEN w
    ELSE [w EXCEPT !.app.loop_range =
             Some(EditRange(w.app.loop_range[1], e,
                            ToSeconds(1, w.app.info[1].sample_rate),
                            file_duration_seconds(w.app.info[1])))]

\* what the pointer does on the plot during one update
NoGesture == [shift_down |-> FALSE, drag_started |-> FALSE,
              drag_active |-> FALSE, drag_released |-> FALSE,
              pointer_seconds |-> NoneOf]

PointerSeconds == {NoneOf} \cup {Some(t) : t \in PointerTimes}

\* with Shift up only drag_released is looked at
Gestures ==
    [shift_down : {TRUE}, drag_started : BOOLEAN, drag_active : BOOLEAN,
     drag_released : BOOLEAN, pointer_seconds : PointerSeconds]
    \cup [shift_down : {FALSE}, drag_started : {FALSE}, drag_active : {FALSE},
          drag_released : BOOLEAN, pointer_seconds : {NoneOf}]

\* draw_waveform: the WaveformResult; without a preview the plot is not shown
waveform_result(info, g) == IF info.rms_len = 0 THEN NoGesture ELSE g

\* draw_waveform: the loop markers drawn for a loop range over a preview of
\* rms_len values of 1/50 s each
draw_overlay(info, loop_range) ==
    IF info.rms_len = 0 \/ loop_range = NoneOf THEN NoneOf
    ELSE Some([start |-> Clamp(Min(loop_range[1].start, loop_range[1].end),
                               0, info.rms_len * Res),
               end |-> Clamp(Max(loop_range[1].end, loop_range[1].start),
                             0, info.rms_len * Res)])

DragStart(a, dur, res) ==
    IF res.drag_started /\ res.pointer_seconds # NoneOf
    THEN [a EXCEPT !.loop_drag_anchor = res.pointer_seconds,
                   !.loop_range = Some(clamp(ordered(res.pointer_seconds[1],
                                                     res.pointer_seconds[1]),
                                             dur))]
    ELSE a

DragMove(a, dur, res) ==
    IF a.loop_drag_anchor # NoneOf /\ res.pointer_seconds # NoneOf
       /\ res.drag_active
    THEN [a EXCEPT !.loop_range = Some(clamp(ordered(a.loop_drag_anchor[1],
                                                     res.pointer_seconds[1]),
                                             dur))]
    ELSE a

DragRelease(a, res) ==
    IF res.drag_released THEN [a EXCEPT !.loop_drag_anchor = NoneOf] ELSE a

\* a handler that sees a release only while Shift is held (variant of the
\* code below)
handle_waveform_interaction_shift_only(a, dur, res) ==
    IF ~res.shift_down THEN a
    ELSE DragRelease(DragMove(DragStart(a, dur, res), dur, res), res)

\* LoopahApp::handle_waveform_interaction
handle_waveform_interaction(a, dur, res) ==
    IF ~res.shift_down THEN DragRelease(a, res)
    ELSE DragRelease(DragMove(DragStart(a, dur, res), dur, res), res)

\* the central panel of update
central_panel(w, g) ==
    IF w.app.info = NoneOf THEN w
    ELSE [w EXCEPT !.app = handle_waveform_interaction(
                               w.app, file_duration_seconds(w.app.info[1]),
                               waveform_result(w.app.info[1], g))]

\* the two top panels of update
top_panels(w, input) ==
    IF input.click = "open" THEN open_file(w)
    ELSE IF input.click = "toggle" THEN toggle_play(w)
    ELSE IF input.click = "stop" THEN stop_clicked(w)
    ELSE IF input.click = "edit" THEN loop_controls(w, input.edit)
    ELSE w

\* the user input of one update: nothing, one click, or a pointer gesture on
\* the waveform
Inputs ==
    {[click |-> c, edit |-> NoEdit, gesture |-> NoGesture] :
        c \in {"none", "open", "toggle", "stop"}}
    \cup {[click |-> "edit", edit |-> e, gesture |-> NoGesture] : e \in Edits}
    \cup {[click |-> "none", edit |-> NoEdit, gesture |-> g] : g \in Gestures}

\* the inputs possible once the events are polled: a device is looked for
\* only when a player is built, a control is used only when it is shown
InputsFor(w) ==
    {i \in Inputs :
        /\ i.click = "open" => w.app.load < MaxLoads
        /\ i.click \in {"toggle", "stop"} => w.player.mode # None
        /\ i.click = "edit" => (w.app.info # NoneOf /\ w.app.loop_range # NoneOf)
        /\ i.gesture # NoGesture => w.app.info # NoneOf}

DevicesFor(w) ==
    IF w.app.load_events # NoneOf /\ w.events[w.app.load_events[1]].buf # <<>>
    THEN Devices
    ELSE {[stream_ok |-> TRUE, memory_ok |-> TRUE, ratio |-> Res]}

UpdateDone(w, input) ==
    /\ app' = w.app
    /\ player' = w.player
    /\ pcm' = w.pcm
    /\ events' = w.events
    /\ hist' = w.hist
    /\ worker' = IF input.click = "open"
                 THEN [worker EXCEPT ![w.app.load] = [NoWorker EXCEPT !.pc = "open"]]
                 ELSE worker
    /\ op' = IF input.click \in {"open", "toggle", "stop"}
             THEN [name |-> "update", built |-> "none", preview |-> "none"]
             ELSE [name |-> "update", built |-> w.built, preview |-> w.preview]
    /\ output' = <<>>
    /\ UNCHANGED <<lr, dec, mtx>>

UpdatePolled(w1) ==
    \E input \in InputsFor(w1) :
       UpdateDone(central_panel(top_panels(w1, input), input.gesture), input)

\* LoopahApp::update
Update == \E dev \in DevicesFor(World) : UpdatePolled(poll_loader(World, dev))

InitApp ==
    /\ player = NoPlayer
    /\ pcm = [i \in LoadIds |-> NoChannel]
    /\ output = <<>>
    /\ op = [name |-> "new"]
    /\ hist = NoHist
    /\ InitIdle

\* the steps of the UI thread and of the decode workers.  The render
\* callback is left to Spec: it moves the playhead and empties the chunk
\* queue, which update and the workers neither read nor wait for.
NextApp ==
    \/ Update
    \/ \E id \in LoadIds : WorkerOpen(id)
    \/ \E id \in LoadIds : WorkerError(id)
    \/ \E id \in LoadIds : WorkerChunk(id)
    \/ \E id \in LoadIds : WorkerFinish(id)

SpecApp == InitApp /\ [][NextApp]_vars

\* ------------------------------------------------------------ the Decoder
\* probe_and_preview and decode_all_interleaved run over the packets of one
\* file.  A packet belongs to the default track or to another one, and the
\* decoder returns its frames, DecodeError (corrupt) or another error; after
\* the last packet next_packet() returns an error.
MaxPackets == 3
MaxPacketFrames == 2
MaxSampleRate == 160
MaxWindow == 2

Packets ==
    {[track |-> "other", res |-> "ok", frames |-> 0]}
    \cup {[track |-> "own", res |-> "ok", frames |-> n] : n \in 0..MaxPacketFrames}
    \cup {[track |-> "own", res |-> r, frames |-> 0] : r \in {"corrupt", "error"}}

Files == UNION {[1..k -> Packets] : k \in 0..MaxPackets}

NewDec(fn, setup, sr, ch, file) ==
    [pc |-> "setup", fn |-> fn, setup |-> setup, sample_rate |-> sr,
     channels |-> ch, file |-> file, i |-> 1, window_frames |-> 0,
     total_frames |-> 0, rms_len |-> 0, out_len |-> 0, frames |-> 0,
     result |-> "none", info |-> NoneOf]

\* the `for f in 0..frames` loop of one packet: the number of windows pushed
RECURSIVE RmsLoop(_, _, _, _, _)
RmsLoop(f, frames, acc_count, pushed, window) ==
    IF f >= frames THEN pushed
    ELSE IF acc_count + 1 = window
         THEN RmsLoop(f + 1, frames, 0, pushed + 1, window)
         ELSE RmsLoop(f + 1, frames, acc_count + 1, pushed, window)

\* a return that takes the sample count for the frame count (variant of the
\* code below)
DecodeReturn_counts_samples(d) ==
    [d EXCEPT !.pc = "done",
              !.result = "Ok",
              !.frames = IF d.fn = "decode_all_interleaved"
                         THEN d.out_len ELSE @]

\* Ok(DecodedInfo { .. }) / Ok(MemoryAudio { .. }) after the loop
DecodeReturn(d) ==
    [d EXCEPT !.pc = "done",
              !.result = "Ok",
              !.frames = IF d.fn = "decode_all_interleaved"
                         THEN d.out_len \div d.channels ELSE @]

\* File::open .. get_codecs().make(): any failure returns Err
DecodeSetup ==
    /\ dec.pc = "setup"
    /\ dec' = IF dec.setup # "ok"
              THEN [dec EXCEPT !.pc = "done", !.result = "Err"]
              ELSE [dec EXCEPT !.pc = "loop",
                               !.window_frames =
                                   IF dec.fn = "probe_and_preview"
                                   THEN window_frames(dec.sample_rate) ELSE @]
    /\ UNCHANGED <<playerVars, appVars, lr, mtx>>

\* `while let Ok(packet) = format.next_packet()` fails: the loop ends
NextPacketErr ==
    /\ dec.pc = "loop"
    /\ dec.i > Len(dec.file)
    /\ dec' = DecodeReturn(dec)
    /\ UNCHANGED <<playerVars, appVars, lr, mtx>>

\* packet.track_id() != track_id: continue
PacketOtherTrack ==
    /\ dec.pc = "loop"
    /\ dec.i <= Len(dec.file)
    /\ dec.file[dec.i].track = "other"
    /\ dec' = [dec EXCEPT !.i = @ + 1]
    /\ UNCHANGED <<playerVars, appVars, lr, mtx>>

\* decoder.decode(&packet) is Ok: the packet's samples are counted / appended
DecodeOk ==
    /\ dec.pc = "loop"
    /\ dec.i <= Len(dec.file)
    /\ dec.file[dec.i].track = "own"
    /\ dec.file[dec.i].res = "ok"
    /\ LET samples_len == dec.file[dec.i].frames * dec.channels
           frames == samples_len \div dec.channels
       IN dec' = IF dec.fn = "probe_and_preview"
                 THEN [dec EXCEPT !.i = @ + 1,
                                  !.total_frames = @ + frames,
                                  !.rms_len = @ + RmsLoop(0, frames, 0, 0,
                                                          dec.window_frames)]
                 ELSE [dec EXCEPT !.i = @ + 1,
                                  !.out_len = @ + samples_len]
    /\ UNCHANGED <<playerVars, appVars, lr, mtx>>

\* a corrupt packet that ends the loop (variant of the code below)
DecodeCorrupt_breaks ==
    /\ dec.pc = "loop"
    /\ dec.i <= Len(dec.file)
    /\ dec.file[dec.i].track = "own"
    /\ dec.file[dec.i].res = "corrupt"
    /\ dec' = DecodeReturn(dec)
    /\ UNCHANGED <<playerVars, appVars, lr, mtx>>

\* Err(SymphoniaError::DecodeError(_)) => continue
DecodeCorrupt ==
    /\ dec.pc = "loop"
    /\ dec.i <= Len(dec.file)
    /\ dec.file[dec.i].track = "own"
    /\ dec.file[dec.i].res = "corrupt"
    /\ dec' = [dec EXCEPT !.i = @ + 1]
    /\ UNCHANGED <<playerVars, appVars, lr, mtx>>

\* Err(_) => break
DecodeOtherError ==
    /\ dec.pc = "loop"
    /\ dec.i <= Len(dec.file)
    /\ dec.file[dec.i].track = "own"
    /\ dec.file[dec.i].res = "error"
    /\ dec' = DecodeReturn(dec)
    /\ UNCHANGED <<playerVars, appVars, lr, mtx>>

\* the same file decoded a second time, by decode_all_interleaved, after
\* probe_and_preview has returned its DecodedInfo
DecodeAgain ==
    /\ dec.pc = "done"
    /\ dec.fn = "probe_and_preview"
    /\ dec.result = "Ok"
    /\ dec' = [NewDec("decode_all_interleaved", dec.setup, dec.sample_rate,
                      dec.channels, dec.file)
                 EXCEPT !.info = Some(DecodedInfo(dec.sample_rate, dec.channels,
                                                  dec.total_frames, dec.rms_len))]
    /\ UNCHANGED <<playerVars, appVars, lr, mtx>>

\* a call of one of the two functions: on a file whose setup fails, or on a
\* file of known sample rate and channel count (at least one channel).  The
\* sample rate reaches the packet loop through window_frames only, so every
\* rate is tried on the files of at most one packet and every packet
\* sequence at the rates 50, 100, .. that give each window size.
InitDecode ==
    /\ player = NoPlayer
    /\ pcm = [i \in LoadIds |-> NoChannel]
    /\ output = <<>>
    /\ op = [name |-> "new"]
    /\ hist = NoHist
    /\ app = NoApp
    /\ worker = [i \in LoadIds |-> NoWorker]
    /\ events = [i \in LoadIds |-> NoEvents]
    /\ lr = NoLr
    /\ mtx = NoMtx
    /\ \E fn \in {"probe_and_preview", "decode_all_interleaved"} :
          \/ \E setup \in {"open", "probe", "track", "sample_rate", "channels",
                            "codec"} :
                \* a step before the packet loop returns early with `?`
                dec = NewDec(fn, setup, 1, 1, <<>>)
          \/ \E sr \in 1..MaxSampleRate, ch \in 1..MaxChannels, file \in Files :
                /\ Len(file) <= 1
                /\ dec = NewDec(fn, "ok", sr, ch, file)
          \/ \E w \in 1..MaxWindow, ch \in 1..MaxChannels, file \in Files :
                dec = NewDec(fn, "ok", w * PreviewHz, ch, file)

NextDecode ==
    \/ DecodeSetup
    \/ NextPacketErr
    \/ PacketOtherTrack
    \/ DecodeOk
    \/ DecodeCorrupt
    \/ DecodeOtherError
    \/ DecodeAgain

SpecDecode == InitDecode /\ [][NextDecode]_vars

\* ------------------------------------------------- the lock, step by step
\* Spec takes every method and the callback as one step.  Here each one is
\* split at Mutex::lock: the UI thread locks, runs a command and unlocks,
\* and the audio thread's callback calls lock() on the same Mutex, which
\* returns Err at once when the Mutex is poisoned and otherwise returns only
\* when the Mutex is free.
\* the body of the Player method, run with the guard held
RunCommand(p, cmd) ==
    IF cmd[1] = "play" THEN play(p)
    ELSE IF cmd[1] = "pause" THEN pause(p)
    ELSE IF cmd[1] = "stop" THEN stop(p)
    ELSE IF cmd[1] = "seek" THEN player_set_position_seconds(p, cmd[2])
    ELSE player_set_loop(p, cmd[2])

\* self.shared.lock() in a Player method
UiLock ==
    /\ mtx.ui = "idle"
    /\ mtx.holder = "none"
    /\ ~player.poisoned
    /\ \E cmd \in {<<"play">>, <<"pause">>, <<"stop">>, <<"seek", 0>>,
                    <<"seek", Res>>, <<"set_loop", None>>,
                    <<"set_loop", <<0, 2 * Res>>>>} :
          mtx' = [mtx EXCEPT !.holder = "ui", !.ui = "locked", !.cmd = cmd]
    /\ op' = [name |-> "lock"]
    /\ UNCHANGED <<player, pcm, output, hist, appVars, lr, dec>>

\* the method body and the drop of the guard (a panic in the body poisons)
UiUnlock ==
    /\ mtx.ui = "locked"
    /\ player' = RunCommand(player, mtx.cmd)
    /\ mtx' = [mtx EXCEPT !.holder = "none", !.ui = "idle", !.cmd = <<"none">>]
    /\ op' = [name |-> mtx.cmd[1]]
    /\ UNCHANGED <<pcm, output, hist, appVars, lr, dec>>

\* the callback is invoked with a buffer of n frames and calls lock()
CallbackLock ==
    /\ mtx.callback = "idle"
    /\ player.mode = "Memory"
    /\ \E n \in 0..MaxOutFrames :
          IF player.poisoned
          THEN /\ RenderPoisoned(OutputBuffer(player, n))
               /\ mtx' = mtx
          ELSE /\ mtx' = IF mtx.holder = "none"
                         THEN [mtx EXCEPT !.holder = "callback",
                                          !.callback = "locked", !.n = n]
                         ELSE [mtx EXCEPT !.callback = "waiting", !.n = n]
               /\ output' = OutputBuffer(player, n)
               /\ op' = [name |-> "lock"]
               /\ UNCHANGED <<player, pcm, hist>>
    /\ UNCHANGED <<appVars, lr, dec>>

\* lock() returns to the waiting callback once the guard has been dropped
CallbackWake ==
    /\ mtx.callback = "waiting"
    /\ mtx.holder = "none"
    /\ IF player.poisoned
       THEN /\ RenderPoisoned(OutputBuffer(player, mtx.n))
            /\ mtx' = [mtx EXCEPT !.callback = "idle", !.n = 0]
       ELSE /\ mtx' = [mtx EXCEPT !.holder = "callback", !.callback = "locked"]
            /\ op' = [name |-> "lock"]
            /\ UNCHANGED <<player, pcm, output, hist>>
    /\ UNCHANGED <<appVars, lr, dec>>

\* the callback's body with the guard held, and the drop of the guard
CallbackRun ==
    /\ mtx.callback = "locked"
    /\ RenderMemory(process_memory(player.mem, player.playing, player.volume,
                                   OutputBuffer(player, mtx.n)))
    /\ mtx' = [mtx EXCEPT !.holder = "none", !.callback = "idle", !.n = 0]
    /\ UNCHANGED <<appVars, lr, dec>>

InitLock ==
    /\ InitPlayerMemory
    /\ output = <<>>
    /\ op = [name |-> "new"]
    /\ hist = NoHist
    /\ InitIdle

NextLock ==
    \/ UiLock
    \/ UiUnlock
    \/ CallbackLock
    \/ CallbackWake
    \/ CallbackRun

SpecLock == InitLock /\ [][NextLock]_vars

\* ------------------------------------------- the loop-drag gesture alone
\* a file is loaded (PreviewReady was handled) and the waveform is shown;
\* each update hands one WaveformResult, any combination of its flags, to
\* handle_waveform_interaction
InitGesture ==
    /\ player = NoPlayer
    /\ pcm = [i \in LoadIds |-> NoChannel]
    /\ output = <<>>
    /\ op = [name |-> "new"]
    /\ hist = NoHist
    /\ worker = [i \in LoadIds |-> NoWorker]
    /\ events = [i \in LoadIds |-> NoEvents]
    /\ lr = NoLr
    /\ dec = NoDec
    /\ mtx = NoMtx
    /\ \E n \in 1..MaxStreamFrames :
          app = [NoApp EXCEPT
                   !.load = 1,
                   !.info = Some(DecodedInfo(PreviewHz, 1, n, n)),
                   !.mem_audio = Some(MemoryAudio(PreviewHz, 1, n)),
                   !.loop_range =
                       Some(ordered(0, file_duration_seconds(
                                           DecodedInfo(PreviewHz, 1, n, n))))]

\* the central panel of one update
Interaction ==
    /\ \E g \in [shift_down : BOOLEAN, drag_started : BOOLEAN,
                 drag_active : BOOLEAN, drag_released : BOOLEAN,
                 pointer_seconds : PointerSeconds] :
          /\ app' = central_panel(World, g).app
          /\ op' = [name |-> "gesture", res |-> waveform_result(app.info[1], g)]
    /\ UNCHANGED <<player, pcm, output, hist, worker, events, lr, dec, mtx>>

SpecGesture == InitGesture /\ [][Interaction]_vars

\* ================================================================ claims
AllZero(buf) == \A i \in 1..Len(buf) : buf[i] = 0

LoopActive == player.mode = "Memory" /\ player.mem.loop_range # None

\* ---------------------------------------------------------------------
\* C1: in Memory mode, whenever a loop range (s, e) is active the playhead
\* satisfies s <= pos_frame < e after every completed operation, and a
\* render step of one frame that reaches or overshoots e, by any amount,
\* lands at s + ((pos_frame - s) mod (e - s)).
C1_InWindow ==
    LoopActive =>
        /\ player.mem.loop_range[1] <= player.mem.pos_frame
        /\ player.mem.pos_frame < player.mem.loop_range[2]

C1_Landing ==
    (/\ LoopActive /\ player.playing /\ ~player.poisoned
     /\ op'.name = "render" /\ op'.wrote = 1
     /\ Len(output') = player.mem.src.channels)
    => LET s == player.mem.loop_range[1]
           e == player.mem.loop_range[2]
           p == player.mem.pos_frame + player.mem.ratio
       IN player'.mem.pos_frame = IF p >= e THEN s + ((p - s) % (e - s)) ELSE p

C1_PlayheadStaysInLoop == []C1_InWindow /\ [][C1_Landing]_vars

\* a render step has advanced a playhead whose every advance overshoots the
\* loop end by more than one loop length
C1_Witness ==
    /\ LoopActive
    /\ op.name = "render" /\ op.wrote >= 1
    /\ player.mem.ratio > 2 * (player.mem.loop_range[2] - player.mem.loop_range[1])

\* ---------------------------------------------------------------------
\* C2: while paused, in both modes, every render step outputs only zeros
\* and pulls nothing from the chunk channel, and position_seconds() keeps
\* its value over every step that is not play, stop, seek or set_loop.
C2_Step ==
    (/\ player.mode # None /\ ~player.playing /\ ~player'.playing
     /\ op'.name \in {"render", "pause", "other"})
    => /\ position_seconds(player') = position_seconds(player)
       /\ op'.name = "render" =>
             /\ AllZero(output')
             /\ pcm' = pcm
             /\ player' = player

C2_PausedHoldsPosition == [][C2_Step]_vars

\* a paused Stream player, part-way through the stream, has rendered a
\* non-empty buffer while chunks were waiting in the channel
C2_Witness ==
    /\ player.mode = "Stream" /\ ~player.playing
    /\ op.name = "render" /\ Len(output) > 0
    /\ pcm[player.stream.receiver].buf # <<>>
    /\ player.stream.pos_frame > 0

\* ---------------------------------------------------------------------
\* C3: after stop() returns, is_playing() is false and the position is the
\* loop start if a loop is active and zero otherwise; in Stream mode the
\* position and the phase are zero, the pending queue is empty and the
\* anchors are to be read again.
C3_AfterStop ==
    op.name = "stop" =>
        /\ ~is_playing(player)
        /\ player.mode = "Memory" =>
              position_seconds(player) =
                  (IF player.mem.loop_range # None
                   THEN player.mem.loop_range[1] ELSE 0)
                      * ((PreviewHz * Res) \div player.mem.src.sample_rate)
        /\ player.mode = "Stream" =>
              /\ position_seconds(player) = 0
              /\ player.stream.pos_frame = 0
              /\ player.stream.phase = 0
              /\ player.stream.pending = <<>>
              /\ player.stream.chunk_offset = 0
              /\ ~player.stream.initialized

\* stop() has returned with a loop active that does not start at frame 0
C3_Witness ==
    /\ op.name = "stop"
    /\ LoopActive
    /\ player.mem.loop_range[1] > 0

\* ---------------------------------------------------------------------
\* C4: set_loop(Some((start, end))) with end - start less than one sample
\* period (zero width included) leaves no active loop.
C4_DegenerateIsNoLoop ==
    (/\ player.mode = "Memory"
     /\ op.name = "set_loop"
     /\ op.arg \in {"zero", "degenerate"})
    => player.mem.loop_range = None

\* ---------------------------------------------------------------------
\* C5: in Stream mode, when a render step runs out of frames with the
\* sender disconnected, the rest of that output buffer is zero, finished
\* is set and initialized is reset; from then on every output buffer is
\* all zero; and finished is only ever set once the sender is gone and no
\* chunk is left in the channel.
EndOfStream ==
    /\ player.mode = "Stream"
    /\ player.stream.finished
    /\ ~player.stream.initialized
    /\ player.stream.pending = <<>>

C5_AtEnd ==
    (/\ player.mode = "Stream" /\ op.name = "render" /\ op.ran_out
     /\ ~pcm[player.stream.receiver].connected)
    => /\ EndOfStream
       /\ \A i \in 1..Len(output) :
             i > op.wrote * player.stream.channels => output[i] = 0

C5_Finished ==
    (player.mode = "Stream" /\ player.stream.finished)
    => /\ ~pcm[player.stream.receiver].connected
       /\ pcm[player.stream.receiver].buf = <<>>

C5_Later ==
    (EndOfStream /\ op'.name = "render")
    => (AllZero(output') /\ EndOfStream')

C5_SilenceAtEndOfStream ==
    [](C5_AtEnd /\ C5_Finished) /\ [][C5_Later]_vars

\* a render step interpolated a frame, then ran out of frames after the
\* sender had disconnected, with part of the buffer left to fill
C5_Witness ==
    /\ player.mode = "Stream"
    /\ op.name = "render" /\ op.ran_out /\ op.wrote >= 1
    /\ ~pcm[player.stream.receiver].connected
    /\ Len(output) > op.wrote * player.stream.channels

\* ---------------------------------------------------------------------
\* C6: with a resample ratio of at most 1 (no frame is skipped by design),
\* no frame pulled from the queue is dropped before an output frame was
\* interpolated from it, underruns included.
C6_NoFrameLost ==
    (player.mode = "Stream" /\ player.stream.ratio <= Res) => hist.lost = {}

\* ---------------------------------------------------------------------
\* C7: for one load, in the order the worker sends on its two channels:
\* at most one StreamReady; at most one terminal event, and exactly one
\* once the worker is done; nothing, event or chunk, is sent after the
\* terminal event, so StreamReady and every chunk precede it; and what the
\* event channel holds is in that order too.
Count(log, tags) == Cardinality({k \in 1..Len(log) : log[k] \in tags})

TerminalLast(log, tags) == \A k \in 1..Len(log) : log[k] \in tags => k = Len(log)

EventTypes(buf) == [k \in 1..Len(buf) |-> buf[k].type]

C7_EventOrder ==
    \A id \in LoadIds :
       /\ Count(worker[id].log, {"StreamReady"}) <= 1
       /\ Count(worker[id].log, {"PreviewReady", "Error"}) <= 1
       /\ worker[id].pc = "done" <=>
             Count(worker[id].log, {"PreviewReady", "Error"}) = 1
       /\ TerminalLast(worker[id].log, {"PreviewReady", "Error"})
       /\ \A k \in 1..Len(worker[id].log) :
             worker[id].log[k] = "StreamReady" => k = 1
       /\ Count(worker[id].log, {"chunk"}) = pcm[id].chunks
       /\ Count(worker[id].log, {"PreviewReady", "Error"}) = 1 =>
             (~pcm[id].connected /\ ~events[id].connected)
       /\ TerminalLast(EventTypes(events[id].buf), {"PreviewReady", "Error"})
       /\ Count(EventTypes(events[id].buf), {"StreamReady"}) <= 1

\* a load has sent StreamReady, two chunks and PreviewReady, and its events
\* are still in the channel
C7_Witness ==
    \E id \in LoadIds :
       /\ worker[id].log = <<"StreamReady", "chunk", "chunk", "PreviewReady">>
       /\ Len(events[id].buf) = 2

\* ---------------------------------------------------------------------
\* C8: ordered(a, b) has start <= end and holds the two endpoints a and b;
\* clamp(d), for d >= 0 and any range, returns 0 <= start <= end <= d;
\* duration() is max(0, end - start).
C8_LoopRangeOps ==
    /\ lr.f = "ordered" =>
          /\ lr.out.start <= lr.out.end
          /\ <<lr.out.start, lr.out.end>> \in {<<lr.a, lr.b>>, <<lr.b, lr.a>>}
    /\ lr.f = "clamp" =>
          /\ 0 <= lr.out.start
          /\ lr.out.start <= lr.out.end
          /\ lr.out.end <= lr.d
    /\ lr.f = "duration" =>
          lr.out = (IF lr.b - lr.a > 0 THEN lr.b - lr.a ELSE 0)

\* ordered() was given its endpoints in descending order
C8_Witness ==
    /\ lr.f = "ordered"
    /\ lr.a > lr.b
    /\ lr.out.start = lr.b /\ lr.out.end = lr.a

\* ---------------------------------------------------------------------
\* C9: whenever the app's loop_range is set, a DecodedInfo is installed and
\* 0 <= start <= end <= the duration of that file, whatever load events,
\* A/B edits and shift-drag gestures came before.
C9_LoopRangeWithinFile ==
    app.loop_range # NoneOf =>
        /\ app.info # NoneOf
        /\ 0 <= app.loop_range[1].start
        /\ app.loop_range[1].start <= app.loop_range[1].end
        /\ app.loop_range[1].end <= file_duration_seconds(app.info[1])

\* in the second load, a shift-drag that began after the end of the file is
\* under way and has set a range that ends at the end of the file
C9_Witness ==
    /\ app.load = 2
    /\ app.info # NoneOf /\ app.loop_range # NoneOf
    /\ app.loop_drag_anchor # NoneOf
    /\ app.loop_drag_anchor[1] > file_duration_seconds(app.info[1])
    /\ app.loop_range[1].start > 0
    /\ app.loop_range[1].start < app.loop_range[1].end
    /\ app.loop_range[1].end = file_duration_seconds(app.info[1])

\* ---------------------------------------------------------------------
\* C10: the loop window the Player enforces is the one the app's loop_range
\* gives to set_loop, and the loop markers draw_waveform draws for the
\* app's loop_range are at its start and end.
SameLoop(x, y) ==
    IF x # None /\ y # None THEN x = y ELSE (x # None) <=> (y # None)

C10_PlayerLoop ==
    (/\ player.mode = "Memory" /\ ~player.poisoned
     /\ app.loop_range # NoneOf
     /\ ~set_loop_panics(player.mem,
                         <<app.loop_range[1].start, app.loop_range[1].end>>))
    => SameLoop(player.mem.loop_range,
                set_loop(player.mem,
                         <<app.loop_range[1].start,
                           app.loop_range[1].end>>).loop_range)

C10_Overlay ==
    (app.info # NoneOf /\ app.loop_range # NoneOf /\ app.info[1].rms_len > 0)
    => /\ draw_overlay(app.info[1], app.loop_range)[1].start
             = app.loop_range[1].start
       /\ draw_overlay(app.info[1], app.loop_range)[1].end
             = app.loop_range[1].end

C10_LoopWindowsAgree == C10_PlayerLoop /\ C10_Overlay

\* ---------------------------------------------------------------------
\* C11: once the app has handled the terminal Error of a load, no
\* DecodedInfo and no decoded buffer is installed, and no player is.
C11_NothingLeftAfterError ==
    app.load_error =>
        /\ app.info = NoneOf
        /\ app.mem_audio = NoneOf
        /\ player.mode = None

\* ---------------------------------------------------------------------
\* C12: every receiver of an earlier load is dropped and the app and its
\* player hold receivers of the current load only; while the chunk receiver
\* of a new load is still held, nothing of an earlier load is installed; and
\* a step of an earlier load's worker changes neither the app, nor the
\* player, nor a channel of another load, and leaves nothing in its own.
C12_Discarded ==
    /\ \A id \in LoadIds :
          id # app.load =>
             /\ ~events[id].receiver /\ events[id].buf = <<>>
             /\ ~pcm[id].receiver /\ pcm[id].buf = <<>>
    /\ app.load_events \in {NoneOf, Some(app.load)}
    /\ app.stream_rx \in {NoneOf, Some(app.load)}
    /\ player.mode = "Stream" => player.stream.receiver = app.load
    /\ app.stream_rx # NoneOf =>
          /\ app.info = NoneOf /\ app.mem_audio = NoneOf
          /\ player.mode = None
          /\ ~app.load_error
          /\ app.loop_range = NoneOf /\ app.loop_drag_anchor = NoneOf

C12_OldWorkerStep ==
    \A id \in LoadIds :
       (op'.name = "worker" /\ id # app.load /\ worker'[id] # worker[id]) =>
          /\ app' = app
          /\ player' = player
          /\ \A j \in LoadIds \ {id} : pcm'[j] = pcm[j] /\ events'[j] = events[j]
          /\ pcm'[id].buf = <<>> /\ events'[id].buf = <<>>

C12_Superseded == []C12_Discarded /\ [][C12_OldWorkerStep]_vars

\* the first load's worker has sent its chunks and PreviewReady after the
\* app had already handled the StreamReady of the second load
C12_Witness ==
    /\ app.load = 2
    /\ op.name = "worker"
    /\ worker[2].pc = "decode" /\ pcm[2].chunks = 0
    /\ app.meta # NoneOf
    /\ player.mode = "Stream"
    /\ worker[1].log = <<"StreamReady", "chunk", "chunk", "PreviewReady">>
    /\ app.info = NoneOf

\* ---------------------------------------------------------------------
\* C13: after an update in which the last Player construction failed, the
\* app has no player.
C13_NoPlayerAfterFailure ==
    (op.name = "update" /\ op.built = "failed") => player.mode = None

\* ---------------------------------------------------------------------
\* C14: after an update that handled PreviewReady: a Stream player that was
\* playing is still installed; in every other case, if from_memory
\* succeeded, a playing Memory player at position 0 over the decoded buffer
\* is installed.
C14_LiveKept ==
    (op.name = "update" /\ op.preview = "live") =>
        /\ player.mode = "Stream"
        /\ player.playing
        /\ player.stream.receiver = app.load

C14_Replaced ==
    (op.name = "update" /\ op.preview = "other" /\ op.built = "ok") =>
        /\ player.mode = "Memory"
        /\ player.playing
        /\ player.mem.pos_frame = 0
        /\ app.mem_audio = Some(player.mem.src)

C15_Sought(m, seconds) ==
    LET x == Clamp(ToFrames(seconds, m.src.sample_rate), 0,
                   Max(m.src.frames - 1, 0) * Res)
    IN IF m.loop_range = None THEN x
       ELSE LET s == m.loop_range[1]
                e == m.loop_range[2]
            IN IF x < s THEN s
               ELSE IF x >= e THEN s + ((x - s) % (e - s))
               ELSE x

C15_SeekLands ==
    (op.name = "seek" /\ player.mode = "Memory" /\ ~player.poisoned) =>
        /\ player.mem.pos_frame = C15_Sought(player.mem, op.arg)
        /\ LoopActive =>
              /\ player.mem.loop_range[1] <= player.mem.pos_frame
              /\ player.mem.pos_frame < player.mem.loop_range[2]

C15_LoopSet ==
    (op.name = "set_loop" /\ LoopActive /\ ~player.poisoned) =>
        /\ player.mem.loop_range[1] <= player.mem.pos_frame
        /\ player.mem.pos_frame < player.mem.loop_range[2]

C15_FirstFrame ==
    (/\ op.name \in {"seek", "set_loop"}
     /\ player.mode = "Memory"
     /\ op'.name = "render" /\ op'.wrote >= 1)
    => LET src == player.mem.src
           i0 == player.mem.pos_frame \div Res
           frac == player.mem.pos_frame % Res
       IN \A c \in 1..src.channels :
             output'[c] =
                 (src.data[i0 * src.channels + c] * (Res - frac)
                  + src.data[(i0 + 1) * src.channels + c] * frac) * player.volume

C15_SeekVisibleToRender ==
    /\ []C15_SeekLands
    /\ []C15_LoopSet
    /\ [][C15_FirstFrame]_vars

\* a render step right after a seek has written a frame from inside the loop,
\* past frame 0
C15_Witness ==
    /\ op.name = "render" /\ op.after = "seek" /\ op.wrote >= 1
    /\ LoopActive
    /\ player.mem.loop_range[1] > 0
    /\ output[1] >= (player.mem.loop_range[1] \div Res) * player.mem.src.channels * Res

\* ---------------------------------------------------------------------
\* C16: in Stream mode, once the anchors are initialised, floor(pos_frame)
\* is the index in the decoded frame sequence of the frame held as the prev
\* anchor.
C16_PositionIsPrevAnchor ==
    (player.mode = "Stream" /\ player.stream.initialized) =>
        player.stream.pos_frame \div Res
            = FrameId(player.stream.prev_frame, player.stream.channels)

\* ---------------------------------------------------------------------
\* C17: a set_loop or set_position_seconds call on a Player in Stream mode
\* changes no field of the playback state, and takes nothing from the
\* channel.
C17_StreamUntouched ==
    (player.mode = "Stream" /\ op'.name \in {"seek", "set_loop", "set_loop_panic"})
    => /\ player' = player
       /\ pcm' = pcm
       /\ hist' = hist

C17_MemoryOnly == [][C17_StreamUntouched]_vars

\* a set_loop with a real range was called on a Stream player in mid-stream
C17_Witness ==
    /\ op.name = "set_loop" /\ op.arg = "range"
    /\ player.mode = "Stream"
    /\ player.stream.initialized
    /\ player.stream.pos_frame > 0
    /\ player.stream.pending # <<>>

\* ---------------------------------------------------------------------
\* C18: once setup has succeeded both decode functions return Ok for every
\* packet sequence, and the frame count they return is the sum of the frames
\* of the default track's packets that decoded successfully before the first
\* error that is not a corrupt packet (or before the end of the packets):
\* corrupt packets and packets of other tracks add nothing and do not stop
\* the count.
C18_Stop(file) ==
    IF \E k \in 1..Len(file) : file[k].track = "own" /\ file[k].res = "error"
    THEN CHOOSE k \in 1..Len(file) :
            /\ file[k].track = "own" /\ file[k].res = "error"
            /\ \A j \in 1..(k - 1) : ~(file[j].track = "own" /\ file[j].res = "error")
    ELSE Len(file) + 1

RECURSIVE C18_Sum(_, _)
C18_Sum(file, k) ==
    IF k = 0 THEN 0
    ELSE C18_Sum(file, k - 1)
         + (IF file[k].track = "own" /\ file[k].res = "ok" THEN file[k].frames ELSE 0)

C18_Expected(file) == C18_Sum(file, C18_Stop(file) - 1)

C18_Returned ==
    (dec.pc = "done" /\ dec.setup = "ok") =>
        /\ dec.result = "Ok"
        /\ dec.fn = "probe_and_preview" =>
              dec.total_frames = C18_Expected(dec.file)
        /\ dec.fn = "decode_all_interleaved" =>
              /\ dec.frames = C18_Expected(dec.file)
              /\ dec.out_len = C18_Expected(dec.file) * dec.channels

C18_NeverFailsInLoop == dec.pc = "loop" => dec.result = "none"

C18_DecodeTolerant == C18_Returned /\ C18_NeverFailsInLoop

\* a corrupt packet was skipped, the next packet was counted, and the error
\* after it ended the decode with Ok
C18_Witness ==
    /\ dec.pc = "done" /\ dec.result = "Ok"
    /\ dec.fn = "probe_and_preview"
    /\ Len(dec.file) = 3
    /\ dec.file[1].res = "corrupt"
    /\ dec.file[2].track = "own" /\ dec.file[2].res = "ok" /\ dec.file[2].frames > 0
    /\ dec.file[3].res = "error"
    /\ dec.total_frames = dec.file[2].frames

\* ---------------------------------------------------------------------
\* C19: the window size probe_and_preview uses is max(1, floor(sr / 50)):
\* the integer w >= 1 with w * 50 <= sr < (w + 1) * 50, or 1 below 50 Hz.
C19_WindowIsFloor ==
    (dec.pc \in {"loop", "done"} /\ dec.setup = "ok"
     /\ dec.fn = "probe_and_preview")
    => LET w == dec.window_frames
           sr == dec.sample_rate
       IN /\ w >= 1
          /\ sr < (w + 1) * PreviewHz
          /\ w > 1 => w * PreviewHz <= sr

\* a sample rate whose quotient by 50 rounds up: the window is the floor
C19_Witness ==
    /\ dec.pc = "done" /\ dec.result = "Ok"
    /\ dec.fn = "probe_and_preview"
    /\ dec.sample_rate = PreviewHz + PreviewHz \div 2
    /\ dec.window_frames = 1
    /\ dec.total_frames > 0

\* C19 as stated: round to nearest
C19_Round(sr) == (2 * sr + PreviewHz) \div (2 * PreviewHz)

C19_WindowIsRounded ==
    (dec.pc \in {"loop", "done"} /\ dec.setup = "ok"
     /\ dec.fn = "probe_and_preview")
    => dec.window_frames = Max(1, C19_Round(dec.sample_rate))

\* ---------------------------------------------------------------------
\* C20: the preview probe_and_preview returns has floor(total_frames /
\* window_frames) or ceil(total_frames / window_frames) values.
C20_PreviewLength ==
    (dec.pc = "done" /\ dec.result = "Ok" /\ dec.fn = "probe_and_preview")
    => \/ dec.rms_len = dec.total_frames \div dec.window_frames
       \/ dec.rms_len = (dec.total_frames + dec.window_frames - 1)
                            \div dec.window_frames

\* ---------------------------------------------------------------------
\* C21: when decode_all_interleaved has decoded the file probe_and_preview
\* decoded before, its sample_rate, channels and frames are the
\* DecodedInfo's sample_rate, channels and total_frames, and its buffer has
\* frames * channels samples.
C21_SameMetadata ==
    (dec.pc = "done" /\ dec.fn = "decode_all_interleaved" /\ dec.result = "Ok")
    => /\ dec.out_len = dec.frames * dec.channels
       /\ dec.info # NoneOf =>
             /\ dec.info[1].sample_rate = dec.sample_rate
             /\ dec.info[1].channels = dec.channels
             /\ dec.info[1].total_frames = dec.frames

\* both passes have run over a stereo file with a skipped packet and frames
C21_Witness ==
    /\ dec.pc = "done" /\ dec.fn = "decode_all_interleaved"
    /\ dec.info # NoneOf
    /\ dec.channels = 2
    /\ dec.frames >= 2
    /\ \E k \in 1..Len(dec.file) : dec.file[k].res = "corrupt"

\* ---------------------------------------------------------------------
\* C22: on a poisoned lock the callback has filled the whole buffer with
\* zeros and changed nothing, the transport commands change nothing,
\* is_playing() is false and position_seconds() is 0; and on a contended
\* lock the callback does not wait: it is never inside lock() while another
\* thread holds the guard.
C22_PoisonedSilent ==
    player.poisoned =>
        /\ op.name = "render" => AllZero(output)
        /\ ~is_playing(player)
        /\ position_seconds(player) = 0

C22_PoisonedInert == player.poisoned => player' = player

C22_ContendedSilent == mtx.callback # "waiting"

C22_SilenceFallback ==
    /\ []C22_PoisonedSilent
    /\ [][C22_PoisonedInert]_vars
    /\ []C22_ContendedSilent

\* ---------------------------------------------------------------------
\* C23: in a render step of a playing Stream player the samples taken from
\* the queue (the pending chunks followed by the chunks in the channel) are
\* a prefix of it made of whole frames, the rest stays queued in the same
\* order, the last frame taken is held as an anchor, and both anchors are
\* frames taken in this step or anchors held before it.
RECURSIVE C23_Flat(_)
C23_Flat(chunks) ==
    IF chunks = <<>> THEN <<>> ELSE Head(chunks) \o C23_Flat(Tail(chunks))

C23_Queued(st) ==
    LET all == C23_Flat(st.pending)
    IN SubSeq(all, st.chunk_offset + 1, Len(all))

C23_Frame(q, ch, k) == SubSeq(q, (k - 1) * ch + 1, k * ch)

C23_Pulls(q, st0, st1) ==
    LET ch == st1.channels
        rest == C23_Queued(st1)
        taken == Len(q) - Len(rest)
        k == taken \div ch
        held == {st0.prev_frame, st0.next_frame}
                \cup {C23_Frame(q, ch, j) : j \in 1..k}
    IN /\ taken >= 0
       /\ taken % ch = 0
       /\ rest = SubSeq(q, taken + 1, Len(q))
       /\ k >= 1 => C23_Frame(q, ch, k) \in {st1.prev_frame, st1.next_frame}
       /\ st1.prev_frame \in held
       /\ st1.next_frame \in held

C23_RenderPulls ==
    (/\ player.mode = "Stream" /\ player.playing /\ ~player.poisoned
     /\ op'.name = "render")
    => C23_Pulls(C23_Queued(player.stream)
                    \o C23_Flat(pcm[player.stream.receiver].buf),
                 player.stream, player'.stream)

\* the queued samples are consecutive samples of the decoded sequence
C23_QueueInOrder ==
    player.mode = "Stream" =>
        LET q == C23_Queued(player.stream)
                    \o C23_Flat(pcm[player.stream.receiver].buf)
        IN \A i \in 1..(Len(q) - 1) : q[i + 1] = q[i] + 1

C23_FramesInOrder == []C23_QueueInOrder /\ [][C23_RenderPulls]_vars

\* a render step has pulled the only frame of the first chunk and the first
\* of the two frames of the second: the anchors straddle the chunk boundary
C23_Witness ==
    /\ op.name = "render" /\ op.wrote >= 1
    /\ player.mode = "Stream" /\ player.stream.initialized
    /\ player.stream.channels = 2
    /\ player.stream.chunk_offset > 0
    /\ FrameId(player.stream.prev_frame, 2) = 0
    /\ FrameId(player.stream.next_frame, 2) = 1
    /\ Len(Head(player.stream.pending)) = 4

\* ---------------------------------------------------------------------
\* C24: whenever a render step of a Stream player interpolates its first
\* output frame from anchors it already held, the phase it uses is in
\* [0, 1).
C24_PhaseAtInterpolation ==
    (/\ player.mode = "Stream" /\ player.stream.initialized
     /\ op'.name = "render" /\ op'.wrote >= 1)
    => (0 <= player.stream.phase /\ player.stream.phase < Res)

C24_PhaseInUnitInterval == [][C24_PhaseAtInterpolation]_vars

\* ---------------------------------------------------------------------
\* C25: a Memory render step reads no frame index above frames - 1; it
\* writes `wrote` whole frames and zeros after them; and it stops early only
\* when the frame after the playhead's would be outside the buffer.  With 0
\* or 1 frames it writes zeros only.
C25_NoReadPastEnd ==
    (op.name = "render" /\ player.mode = "Memory" /\ ~player.poisoned) =>
        LET src == player.mem.src
            ch == src.channels
        IN /\ op.wrote >= 1 =>
                 /\ 1 <= op.hi /\ op.hi <= src.frames - 1
                 /\ op.hi * ch + ch <= Len(src.data)
           /\ op.wrote = 0 => op.hi = 0
           /\ op.wrote * ch <= Len(output)
           /\ \A i \in (op.wrote * ch + 1)..Len(output) : output[i] = 0
           /\ \A i \in 1..(op.wrote * ch) : output[i] # Uninit
           /\ (player.playing /\ op.wrote < Len(output) \div ch) =>
                 (player.mem.pos_frame \div Res) + 1 > src.frames - 1
           /\ src.frames <= 1 => op.wrote = 0

\* a render step has read the last frame of the buffer and stopped short of
\* filling the output
C25_Witness ==
    /\ op.name = "render" /\ player.mode = "Memory" /\ player.playing
    /\ op.wrote >= 1
    /\ op.hi = player.mem.src.frames - 1
    /\ op.wrote < Len(output) \div player.mem.src.channels
    /\ player.mem.src.channels = 2

\* ---------------------------------------------------------------------
\* C26: with a loop active and playing set, a Memory render step
\* interpolates every output frame of its buffer: no remainder is
\* zero-filled.  Stated for the full-file loop of a file of two frames or
\* more.
C26_LoopNeverStalls ==
    (/\ op.name = "render" /\ LoopActive
     /\ player.playing /\ ~player.poisoned
     /\ player.mem.src.frames >= 2
     /\ player.mem.loop_range = <<0, player.mem.src.frames * Res>>)
    => op.wrote = Len(output) \div player.mem.src.channels

\* ---------------------------------------------------------------------
\* C27: no set_loop call panics, and after every operation the loop range of
\* a Memory player is None or a pair (s, e) of whole frame indices with
\* 0 <= s, s + 1 <= e and e <= frames.
C27_SetLoopTotal ==
    /\ op.name # "set_loop_panic"
    /\ LoopActive =>
          LET s == player.mem.loop_range[1]
              e == player.mem.loop_range[2]
          IN /\ s % Res = 0 /\ e % Res = 0
             /\ 0 <= s
             /\ s + Res <= e
             /\ e <= player.mem.src.frames * Res

\* ---------------------------------------------------------------------
\* C28: a Memory player with no loop has 0 <= pos_frame <= max(frames - 1,
\* 0) after every operation; and once the playhead is on the last frame a
\* render step writes zeros only and changes neither the position nor the
\* playing flag.
C28_InBuffer ==
    (player.mode = "Memory" /\ player.mem.loop_range = None) =>
        /\ 0 <= player.mem.pos_frame
        /\ player.mem.pos_frame <= Max(player.mem.src.frames - 1, 0) * Res

C28_Absorbing ==
    (/\ player.mode = "Memory" /\ player.mem.loop_range = None
     /\ player.mem.pos_frame = Max(player.mem.src.frames - 1, 0) * Res
     /\ op'.name = "render")
    => /\ AllZero(output')
       /\ player' = player

C28_EndOfFile == []C28_InBuffer /\ [][C28_Absorbing]_vars

\* ---------------------------------------------------------------------
\* C29: in one waveform interaction, loop_drag_anchor changes to Some(t)
\* only on a drag start with Shift held and the pointer at t; it is None
\* after every drag release; with the anchor set, Shift held, the drag
\* active and the pointer at t, loop_range becomes ordered(anchor, t)
\* clamped to the file duration; and with Shift up loop_range is unchanged.
C29_Anchor(a, res) ==
    IF res.drag_started /\ res.pointer_seconds # NoneOf
    THEN res.pointer_seconds ELSE a.loop_drag_anchor

C29_Step ==
    op'.name = "gesture" =>
        LET res == op'.res
            dur == file_duration_seconds(app.info[1])
        IN /\ (app'.loop_drag_anchor # NoneOf
               /\ app'.loop_drag_anchor # app.loop_drag_anchor)
              => (/\ res.shift_down /\ res.drag_started
                  /\ res.pointer_seconds = app'.loop_drag_anchor)
           /\ res.drag_released => app'.loop_drag_anchor = NoneOf
           /\ (/\ res.shift_down /\ res.drag_active
               /\ res.pointer_seconds # NoneOf
               /\ C29_Anchor(app, res) # NoneOf)
              => LET lo == Min(C29_Anchor(app, res)[1], res.pointer_seconds[1])
                     hi == Max(C29_Anchor(app, res)[1], res.pointer_seconds[1])
                 IN app'.loop_range =
                        Some([start |-> Clamp(lo, 0, dur),
                              end |-> Clamp(hi, 0, dur)])
           /\ ~res.shift_down => app'.loop_range = app.loop_range

C29_DragStateMachine == [][C29_Step]_vars

\* a drag that started inside the file has moved left of its anchor with
\* Shift held: the range runs from the pointer to the anchor
C29_Witness ==
    /\ op.name = "gesture"
    /\ op.res.shift_down /\ op.res.drag_active /\ ~op.res.drag_started
    /\ ~op.res.drag_released
    /\ app.loop_drag_anchor # NoneOf
    /\ op.res.pointer_seconds # NoneOf
    /\ op.res.pointer_seconds[1] < app.loop_drag_anchor[1]
    /\ app.loop_range[1].start < app.loop_range[1].end
    /\ app.loop_range[1].end = app.loop_drag_anchor[1]

====
